---- MODULE Spec2Model ----
(***************************************************************************)
(* The per-resource daemon supervisor of kopf (kopf/reactor/daemons.py):   *)
(* spawn_resource_daemons, stop_resource_daemons, daemon_killer,           *)
(* stop_daemon and the runner tasks (_runner, _resource_daemon,            *)
(* _resource_timer), as coroutines on one asyncio event loop.              *)
(*                                                                         *)
(* Every action is one run of a coroutine between two suspension points    *)
(* (awaits): the event loop is single-threaded and cooperative, so such a  *)
(* run is atomic.  Time is a discrete monotonic clock.                     *)
(***************************************************************************)
EXTENDS Integers, Sequences, FiniteSets, TLC

VARIABLES
    now,              \* time.monotonic()
    handlers,         \* the registered spawning handlers, by handler id (immutable)
    limits,           \* the bounds of the run: the last clock value, the calls made,
                      \* the invocations counted
    live_fresh_body,  \* memory.live_fresh_body is not None
    idle_reset_time,  \* memory.idle_reset_time
    daemons,          \* memory.daemons: records in insertion (iteration) order
    tasks,            \* every runner task ever created (asyncio.create_task)
    stoppers,         \* the DaemonStopper created together with task i
    proc,             \* the resource's processing worker: the running stop_resource_daemons call
    killer,           \* the daemon_killer root task
    stops,            \* the stop_daemon coroutines the killer has gathered
    spawn_result,     \* what the last spawn_resource_daemons call returned, and the
                      \* listed handler ids whose runner had finished before it
    stop_result,      \* what the last stop_resource_daemons call returned
    spawned,          \* per handler id: how many spawn calls listed it
    ghost             \* per task: what the supervisor did to it, and when

vars == <<now, handlers, limits, live_fresh_body, idle_reset_time, daemons, tasks,
          stoppers, proc, killer, stops, spawn_result, stop_result, spawned, ghost>>

-----------------------------------------------------------------------------
(* Bounds of the model. *)

MaxTime == 3          \* the clock runs 0..MaxTime
MaxStopCalls == 2     \* stop_resource_daemons calls per run
MaxSpawnCalls == 2    \* spawn_resource_daemons calls per run
MaxRetryDelay == 1    \* the retry delays the invocation engine hands out: 1..MaxRetryDelay
MaxCount == 2         \* the event counters saturate here
MaxRuns == 3          \* the invocations counted in a run of the runners
RetryTime == 4        \* the clock of a run of the retries runs 0..RetryTime
IdleTime == 8         \* the clock of a run of the idle timers runs 0..IdleTime
GridTime == 14        \* the clock of a run of the interval timers runs 0..GridTime
EscalationTime == 15  \* the clock of the escalation scenario runs 0..EscalationTime
EscalationCalls == 3  \* stop_resource_daemons calls of the escalation scenario
PairTime == 1         \* the clock of a run of Spec with two handlers runs 0..PairTime
PairStopCalls == 1    \* stop_resource_daemons calls of a run of Spec with two handlers
StoppingTime == 4     \* the clock of a run of the stopped runners runs 0..StoppingTime
ScheduleTime == 6     \* the clock of a run of the retried timers runs 0..ScheduleTime
PollingCalls == 3     \* stop_resource_daemons calls of a run of the polled daemons

(* Program constants. *)

None == -1                        \* Python's None for an optional number
DAEMON_POLLING_INTERVAL == 60

Reasons == {"RESOURCE_DELETED", "OPERATOR_EXITING", "DAEMON_SIGNALLED",
            "DAEMON_CANCELLED", "DAEMON_ABANDONED", "DONE"}

Finished == {"returned", "cancelled", "failed"}
Sleeping == {"initial", "idle_gate", "sleep", "idle_wait"}

Bump(n) == IF n < MaxCount THEN n + 1 ELSE MaxCount

-----------------------------------------------------------------------------
(* Handler descriptors. *)

DaemonHandler(delay, backoff, timeout, polling) ==
    [kind |-> "daemon", initial_delay |-> delay,
     cancellation_backoff |-> backoff, cancellation_timeout |-> timeout,
     cancellation_polling |-> polling,
     interval |-> None, idle |-> None, sharp |-> FALSE]

TimerHandler(delay, interval, idle, sharp) ==
    [kind |-> "timer", initial_delay |-> delay,
     cancellation_backoff |-> None, cancellation_timeout |-> None,
     cancellation_polling |-> None,
     interval |-> interval, idle |-> idle, sharp |-> sharp]

\* A spawning handler that is neither a daemon nor a timer handler.
OtherHandler ==
    [kind |-> "other", initial_delay |-> None,
     cancellation_backoff |-> None, cancellation_timeout |-> None,
     cancellation_polling |-> None,
     interval |-> None, idle |-> None, sharp |-> FALSE]

-----------------------------------------------------------------------------
(* The stopper: a set of reasons and the instant of the first set. *)

NewStopper == [reasons |-> {}, when |-> None]

StopperSet(s, reason, t) ==
    [reasons |-> s.reasons \cup {reason},
     when |-> IF s.when = None THEN t ELSE s.when]

IsSet(s) == s.reasons # {}

\* The ghost of a task: what the first and the last visit of
\* stop_resource_daemons decided (at which age, whether the task was done
\* before and after the yield, the branch taken, whether it set its reason,
\* the delay),
\* the log lines, warnings and cancel calls of each
\* protocol ("deletion": stop_resource_daemons, "exiting": stop_daemon), and
\* the reasons that were set at each cancel call, with its age and instant.
Protocols == {"deletion", "exiting"}
Events == {"signal_log", "force_log", "cancel_call", "abandon_log", "leak_warning"}

NoVisit == [age |-> None, was_done |-> FALSE, is_done |-> FALSE, phase |-> "none",
            fresh |-> FALSE, delay |-> None]

NewGhost ==
    [first |-> NoVisit, last |-> NoVisit,
     count |-> [p \in Protocols |-> [e \in Events |-> 0]],
     cancelled_with |-> {}]

Note(g, by, events) ==
    [g EXCEPT !.count[by] = [e \in Events |-> IF e \in events THEN Bump(@[e]) ELSE @[e]]]

-----------------------------------------------------------------------------
(* The runner task: _runner around _resource_daemon or _resource_timer.    *)
(* A runner step maps the task and its stopper to their next values.       *)

NewTask(hid) ==
    [hid |-> hid, pc |-> "new", must_cancel |-> FALSE,
     wake |-> 0, done |-> FALSE, delay |-> None, started |-> 0, runs |-> 0,
     first |-> None, retried |-> FALSE]

\* A runner that sets DONE on its return only, to see that DoneOnEveryExit
\* rests on the finally clause.
RunnerExitOnReturn(t, s, how) ==
    [t |-> [t EXCEPT !.pc = how, !.must_cancel = FALSE],
     s |-> IF how = "returned" THEN StopperSet(s, "DONE", now) ELSE s]

\* The finally clause of _runner, then the end of the task.
RunnerExit(t, s, how) ==
    [t |-> [t EXCEPT !.pc = how, !.must_cancel = FALSE],
     s |-> StopperSet(s, "DONE", now)]

\* sleep_or_wait(delay, stopper): a null or non-positive delay is one yield.
SleepUntil(t, pc, delay) ==
    [t EXCEPT !.pc = pc, !.wake = IF delay = None \/ delay <= 0 THEN now ELSE now + delay]

\* execute_handlers_once is awaited: one more invocation, counted up to the
\* bound of the run, and the instant of the first one in a run that counts.
Invoke(t) ==
    [t EXCEPT !.pc = "invoke",
              !.runs = IF @ < limits.runs THEN @ + 1 ELSE @,
              !.first = IF limits.runs > 0 /\ @ = None THEN now ELSE @]

\* A loop that does not look at state.done, to see that OnceToSuccess rests
\* on the test.
DaemonLoopForever(h, t, s) ==
    IF ~IsSet(s)
    THEN [t |-> Invoke(t), s |-> s]
    ELSE RunnerExit(t, s, "returned")

\* A loop that does not look at the stopper, to see that NoInvocationOnceSet
\* rests on the test.
DaemonLoopUnstopped(h, t, s) ==
    IF ~t.done
    THEN [t |-> Invoke(t), s |-> s]
    ELSE RunnerExit(t, s, "returned")

\* The head of the loop of _resource_daemon.
DaemonLoop(h, t, s) ==
    IF ~IsSet(s) /\ ~t.done
    THEN [t |-> Invoke(t), s |-> s]
    ELSE RunnerExit(t, s, "returned")

\* A loop that begins every round with a state from scratch, to see that
\* RetryOverridesSchedule rests on the reset being made after a success only.
TimerLoopFromScratch(h, t, s) ==
    IF IsSet(s)
    THEN RunnerExit(t, s, "returned")
    ELSE LET fresh == [t EXCEPT !.done = FALSE, !.delay = None]
         IN  IF h.idle # None /\ now - idle_reset_time < h.idle
             THEN [t |-> SleepUntil(fresh, "idle_gate", idle_reset_time + h.idle - now),
                   s |-> s]
             ELSE [t |-> [Invoke(fresh) EXCEPT !.started = now], s |-> s]

\* The head of the loop of _resource_timer, up to the invocation.
TimerLoop(h, t, s) ==
    IF IsSet(s)
    THEN RunnerExit(t, s, "returned")
    ELSE LET fresh == IF t.done THEN [t EXCEPT !.done = FALSE, !.delay = None] ELSE t
         IN  IF h.idle # None /\ now - idle_reset_time < h.idle
             THEN [t |-> SleepUntil(fresh, "idle_gate", idle_reset_time + h.idle - now),
                   s |-> s]
             ELSE [t |-> [Invoke(fresh) EXCEPT !.started = now], s |-> s]

\* After the initial delay: the state from scratch and the loop.
RunnerLoop(h, t, s) ==
    IF h.kind = "daemon" THEN DaemonLoop(h, t, s) ELSE TimerLoop(h, t, s)

\* The first run of the task: the dispatch of _runner and the initial delay.
RunnerBegin(h, t, s) ==
    IF h.kind \notin {"daemon", "timer"}
    THEN RunnerExit(t, s, "failed")
    ELSE IF h.initial_delay # None
         THEN [t |-> SleepUntil(t, "initial", h.initial_delay), s |-> s]
         ELSE RunnerLoop(h, t, s)

\* What follows the invocation and the patch: the sleep to the next round.
DaemonSchedule(h, t, s) ==
    [t |-> SleepUntil(t, "sleep", t.delay), s |-> s]

\* A schedule that takes every timer for a regular one, to see that
\* SharpGrid rests on the branch of the sharp timers.
TimerScheduleRegular(h, t, s) ==
    IF ~t.done
    THEN [t |-> SleepUntil(t, "sleep", t.delay), s |-> s]
    ELSE IF h.interval # None
    THEN [t |-> SleepUntil(t, "sleep", h.interval), s |-> s]
    ELSE IF h.idle # None
    THEN IF idle_reset_time <= t.started
         THEN [t |-> SleepUntil(t, "idle_wait", h.idle), s |-> s]
         ELSE TimerLoop(h, t, s)
    ELSE RunnerExit(t, s, "returned")

\* A schedule that takes every timer for a sharp one, to see that
\* IntervalAfterCompletion rests on the branch of the regular timers.
TimerScheduleSharp(h, t, s) ==
    IF ~t.done
    THEN [t |-> SleepUntil(t, "sleep", t.delay), s |-> s]
    ELSE IF h.interval # None
    THEN [t |-> SleepUntil(t, "sleep", h.interval - ((now - t.started) % h.interval)),
          s |-> s]
    ELSE IF h.idle # None
    THEN IF idle_reset_time <= t.started
         THEN [t |-> SleepUntil(t, "idle_wait", h.idle), s |-> s]
         ELSE TimerLoop(h, t, s)
    ELSE RunnerExit(t, s, "returned")

TimerSchedule(h, t, s) ==
    IF ~t.done
    THEN [t |-> SleepUntil(t, "sleep", t.delay), s |-> s]
    ELSE IF h.interval # None /\ h.sharp
    THEN [t |-> SleepUntil(t, "sleep", h.interval - ((now - t.started) % h.interval)),
          s |-> s]
    ELSE IF h.interval # None
    THEN [t |-> SleepUntil(t, "sleep", h.interval), s |-> s]
    ELSE IF h.idle # None
    THEN IF idle_reset_time <= t.started
         THEN [t |-> SleepUntil(t, "idle_wait", h.idle), s |-> s]
         ELSE TimerLoop(h, t, s)
    ELSE RunnerExit(t, s, "returned")

RunnerSchedule(h, t, s) ==
    IF h.kind = "daemon" THEN DaemonSchedule(h, t, s) ELSE TimerSchedule(h, t, s)

\* execute_handlers_once has returned: the state with the outcomes folded in
\* (done, or not done with a retry delay, which a run that counts remembers),
\* and whether the patch is non-empty.
RunnerInvoked(h, t, s, done, delay, patched) ==
    LET t1 == [t EXCEPT !.done = done, !.delay = IF done THEN None ELSE delay,
                        !.retried = @ \/ (limits.runs > 0 /\ ~done)]
    IN  IF patched
        THEN [t |-> [t1 EXCEPT !.pc = "patch"], s |-> s]
        ELSE RunnerSchedule(h, t1, s)

\* An idle gate that is passed at the end of its first sleep, to see that
\* IdleGate rests on the loop around the sleep.
RunnerWokenUnextended(h, t, s) ==
    CASE t.pc = "initial"   -> RunnerLoop(h, t, s)
      [] t.pc = "sleep"     -> RunnerLoop(h, t, s)
      [] t.pc = "idle_gate" ->
            IF IsSet(s)
            THEN RunnerExit(t, s, "returned")
            ELSE [t |-> [Invoke(t) EXCEPT !.started = now], s |-> s]
      [] t.pc = "idle_wait" ->
            IF idle_reset_time <= t.started
            THEN [t |-> SleepUntil(t, "idle_wait", h.idle), s |-> s]
            ELSE TimerLoop(h, t, s)

\* A sleep has ended (its time has come, or the stopper is set).
RunnerWoken(h, t, s) ==
    CASE t.pc = "initial"   -> RunnerLoop(h, t, s)
      [] t.pc = "sleep"     -> RunnerLoop(h, t, s)
      [] t.pc = "idle_gate" -> TimerLoop(h, t, s)
      [] t.pc = "idle_wait" ->
            IF idle_reset_time <= t.started
            THEN [t |-> SleepUntil(t, "idle_wait", h.idle), s |-> s]
            ELSE TimerLoop(h, t, s)

-----------------------------------------------------------------------------
(* The runner's steps on the event loop. *)

Handler(i) == handlers[tasks[i].hid]

Ran(i, r) ==
    /\ tasks' = [tasks EXCEPT ![i] = r.t]
    /\ stoppers' = [stoppers EXCEPT ![i] = r.s]
    /\ UNCHANGED <<now, handlers, limits, live_fresh_body, idle_reset_time, daemons, ghost,
                   proc, killer, stops, spawn_result, stop_result, spawned>>

\* The first run of a created task.
RunnerStart(i) ==
    /\ tasks[i].pc = "new"
    /\ ~tasks[i].must_cancel
    /\ Ran(i, RunnerBegin(Handler(i), tasks[i], stoppers[i]))

\* sleep_or_wait returns: the delay has passed or the stopper is set.
RunnerWake(i) ==
    /\ tasks[i].pc \in Sleeping
    /\ ~tasks[i].must_cancel
    /\ IsSet(stoppers[i]) \/ now >= tasks[i].wake
    /\ Ran(i, RunnerWoken(Handler(i), tasks[i], stoppers[i]))

\* execute_handlers_once returns, whenever the user's function does.
HandlerReturn(i) ==
    /\ tasks[i].pc = "invoke"
    /\ ~tasks[i].must_cancel
    /\ \E done \in BOOLEAN, delay \in 1..MaxRetryDelay, patched \in BOOLEAN :
          Ran(i, RunnerInvoked(Handler(i), tasks[i], stoppers[i], done, delay, patched))

\* patch_obj returns and the patch is cleared.
PatchDone(i) ==
    /\ tasks[i].pc = "patch"
    /\ ~tasks[i].must_cancel
    /\ Ran(i, RunnerSchedule(Handler(i), tasks[i], stoppers[i]))

\* patch_obj raises: the error leaves the runner through its finally clause.
PatchFail(i) ==
    /\ tasks[i].pc = "patch"
    /\ ~tasks[i].must_cancel
    /\ Ran(i, RunnerExit(tasks[i], stoppers[i], "failed"))

\* The CancelledError of task.cancel() is thrown into the coroutine at its
\* await.  A task that has not run yet ends without running its body.
RunnerCancelled(t, s) ==
    IF t.pc = "new"
    THEN [t |-> [t EXCEPT !.pc = "cancelled", !.must_cancel = FALSE], s |-> s]
    ELSE RunnerExit(t, s, "cancelled")

CancelDeliver(i) ==
    /\ tasks[i].must_cancel
    /\ tasks[i].pc \notin Finished
    /\ Ran(i, RunnerCancelled(tasks[i], stoppers[i]))

\* The user's function catches the CancelledError and goes on.
CancelSwallow(i) ==
    /\ tasks[i].must_cancel
    /\ tasks[i].pc = "invoke"
    /\ Ran(i, [t |-> [tasks[i] EXCEPT !.must_cancel = FALSE], s |-> stoppers[i]])

\* task.cancel(): a request, delivered on the task's next run; nothing for a done task.
TaskCancel(t) ==
    IF t.pc \in Finished THEN t ELSE [t EXCEPT !.must_cancel = TRUE]

TaskDone(t) == t.pc \in Finished

\* Ready on the event loop now: it runs before the clock moves.
RunnerReady(i) ==
    \/ tasks[i].pc = "new"
    \/ tasks[i].must_cancel /\ tasks[i].pc \in Sleeping \cup {"patch"}
    \/ tasks[i].pc \in Sleeping /\ now >= tasks[i].wake
    \/ tasks[i].pc \in Sleeping \ {"idle_wait"} /\ IsSet(stoppers[i])

\* Created tasks run for the first time before any coroutine that has
\* yielded is resumed.
AllStarted == \A i \in DOMAIN tasks : tasks[i].pc # "new"

-----------------------------------------------------------------------------
(* spawn_resource_daemons. *)

\* A membership test that passes over the daemons whose task is done, to
\* see that NeverRespawned rests on a test of the id alone.
AbsentOrDone(ds, hid) == \A k \in DOMAIN ds : ds[k].id # hid \/ TaskDone(tasks[ds[k].task])

\* A membership test that finds no daemon id, to see that SpawnIdempotent
\* rests on the test.
AbsentAlways(ds, hid) == TRUE

\* daemon_id not in daemons
Absent(ds, hid) == \A k \in DOMAIN ds : ds[k].id # hid

\* A round that creates the task and does not insert the record, to see that
\* OneLiveRunner rests on the insertion that follows the test at once.
SpawnOneUnrecorded(st, hid) ==
    IF Absent(st.daemons, hid)
    THEN [daemons |-> st.daemons,
          tasks |-> Append(st.tasks, NewTask(hid)),
          stoppers |-> Append(st.stoppers, NewStopper),
          ghost |-> Append(st.ghost, NewGhost)]
    ELSE st

\* One round of the loop over the handlers: st holds the daemon table and
\* the tasks and stoppers created so far.
SpawnOne(st, hid) ==
    IF Absent(st.daemons, hid)
    THEN [daemons |-> Append(st.daemons, [id |-> hid, task |-> Len(st.tasks) + 1]),
          tasks |-> Append(st.tasks, NewTask(hid)),
          stoppers |-> Append(st.stoppers, NewStopper),
          ghost |-> Append(st.ghost, NewGhost)]
    ELSE st

RECURSIVE SpawnAll(_, _)
SpawnAll(st, hs) ==
    IF hs = <<>> THEN st ELSE SpawnAll(SpawnOne(st, Head(hs)), Tail(hs))

\* The handler lists a call can pass: the registered ids, each at most once.
HandlerLists ==
    {hs \in UNION {[1..n -> DOMAIN handlers] : n \in 0..Cardinality(DOMAIN handlers)} :
        \A a, b \in DOMAIN hs : a # b => hs[a] # hs[b]}

Listed(hs) == {hs[k] : k \in DOMAIN hs}

\* The listed handler ids whose runner task has finished.
FinishedOf(hs) ==
    {h \in Listed(hs) : \E k \in DOMAIN daemons :
                            daemons[k].id = h /\ TaskDone(tasks[daemons[k].task])}

Idle == [pc |-> "idle", now |-> 0, k |-> 0, age |-> 0, was_done |-> FALSE, delays |-> <<>>]

\* A call that does not look at the body, to see that NoBodyNoSpawn rests on
\* the test that opens the function.
SpawnUnchecked(hs) ==
    /\ proc.pc = "idle"
    /\ \A h \in DOMAIN handlers : spawned[h] < limits.spawn_calls
    /\ LET st == SpawnAll([daemons |-> daemons, tasks |-> tasks,
                           stoppers |-> stoppers, ghost |-> ghost], hs)
       IN  /\ daemons' = st.daemons
           /\ tasks' = st.tasks
           /\ stoppers' = st.stoppers
           /\ ghost' = st.ghost
           /\ spawn_result' = [status |-> "returned", delays |-> <<>>,
                               finished |-> FinishedOf(hs)]
           /\ spawned' = [h \in DOMAIN handlers |->
                            IF h \in Listed(hs) THEN spawned[h] + 1 ELSE spawned[h]]
    /\ UNCHANGED <<now, handlers, limits, live_fresh_body, idle_reset_time,
                   proc, killer, stops, stop_result>>

SpawnResourceDaemons(hs) ==
    /\ proc.pc = "idle"
    /\ \A h \in DOMAIN handlers : spawned[h] < limits.spawn_calls
    /\ IF ~live_fresh_body
       THEN /\ spawn_result' = [status |-> "raised", delays |-> <<>>, finished |-> {}]
            /\ UNCHANGED <<daemons, tasks, stoppers, ghost, spawned>>
       ELSE LET st == SpawnAll([daemons |-> daemons, tasks |-> tasks,
                                stoppers |-> stoppers, ghost |-> ghost], hs)
            IN  /\ daemons' = st.daemons
                /\ tasks' = st.tasks
                /\ stoppers' = st.stoppers
                /\ ghost' = st.ghost
                /\ spawn_result' = [status |-> "returned", delays |-> <<>>,
                                    finished |-> FinishedOf(hs)]
                /\ spawned' = [h \in DOMAIN handlers |->
                                 IF h \in Listed(hs) THEN spawned[h] + 1 ELSE spawned[h]]
    /\ UNCHANGED <<now, handlers, limits, live_fresh_body, idle_reset_time,
                   proc, killer, stops, stop_result>>

\* The watch path: a resource event is seen, the body is remembered and the
\* idle time is reset.
WatchEvent ==
    /\ ~live_fresh_body \/ idle_reset_time < now
    /\ live_fresh_body' = TRUE
    /\ idle_reset_time' = now
    /\ UNCHANGED <<now, handlers, limits, daemons, tasks, stoppers, proc, killer, stops,
                   spawn_result, stop_result, spawned, ghost>>

-----------------------------------------------------------------------------
(* stop_resource_daemons. *)

Backoff(h) == IF h.kind = "daemon" THEN h.cancellation_backoff ELSE None
Timeout(h) == IF h.kind = "daemon" THEN h.cancellation_timeout ELSE None
\* A polling delay that is taken as given unless it is None, to see that
\* PolledForEver rests on the `or` of the assignment.
PollingUnlessNone(h) ==
    IF h.kind = "daemon" /\ h.cancellation_polling # None
    THEN h.cancellation_polling
    ELSE DAEMON_POLLING_INTERVAL

\* cancellation_polling or DAEMON_POLLING_INTERVAL
Polling(h) ==
    IF h.kind = "daemon" /\ h.cancellation_polling \notin {None, 0}
    THEN h.cancellation_polling
    ELSE DAEMON_POLLING_INTERVAL

Supported(h) == h.kind \in {"daemon", "timer"}

\* backoff or 0
OrZero(x) == IF x = None THEN 0 ELSE x

\* Branches with the two windows in the other order, to see that
\* ReasonsInOrder rests on the order of the tests.
PhaseForcefulFirst(done, backoff, timeout, age) ==
    IF done THEN "done"
    ELSE IF timeout # None /\ age < timeout THEN "forceful"
    ELSE IF backoff # None /\ age < backoff + OrZero(timeout) THEN "graceful"
    ELSE IF timeout # None THEN "abandoned"
    ELSE "polling"

\* Branches that do not look at the task, to see that NothingAfterExit rests
\* on the test of task.done().
PhaseOfAge(done, backoff, timeout, age) ==
    IF backoff # None /\ age < backoff THEN "graceful"
    ELSE IF timeout # None /\ age < timeout + OrZero(backoff) THEN "forceful"
    ELSE IF timeout # None THEN "abandoned"
    ELSE "polling"

\* Branches whose windows include their ends, to see that DelaysPositive
\* rests on the strict comparisons.
PhaseInclusive(done, backoff, timeout, age) ==
    IF done THEN "done"
    ELSE IF backoff # None /\ age <= backoff THEN "graceful"
    ELSE IF timeout # None /\ age <= timeout + OrZero(backoff) THEN "forceful"
    ELSE IF timeout # None THEN "abandoned"
    ELSE "polling"

\* The branch taken for a daemon after the yield.
Phase(done, backoff, timeout, age) ==
    IF done THEN "done"
    ELSE IF backoff # None /\ age < backoff THEN "graceful"
    ELSE IF timeout # None /\ age < timeout + OrZero(backoff) THEN "forceful"
    ELSE IF timeout # None THEN "abandoned"
    ELSE "polling"

\* A delay that counts the forceful window from the first set of the stopper
\* and not from the end of the backoff, to see that EscalationDelays rests on
\* the sum.
PhaseDelayFromSet(phase, backoff, timeout, polling, age) ==
    CASE phase = "graceful" -> backoff - age
      [] phase = "forceful" -> timeout - age
      [] phase = "polling"  -> polling
      [] OTHER              -> None

\* A delay that asks for a re-check of an abandoned daemon, to see that
\* DeletionUnblocked rests on the abandoning branch appending nothing.
PhaseDelayRecheck(phase, backoff, timeout, polling, age) ==
    CASE phase = "graceful"  -> backoff - age
      [] phase = "forceful"  -> timeout + OrZero(backoff) - age
      [] phase = "polling"   -> polling
      [] phase = "abandoned" -> polling
      [] OTHER               -> None

\* The delay that branch contributes (None: no delay).
PhaseDelay(phase, backoff, timeout, polling, age) ==
    CASE phase = "graceful" -> backoff - age
      [] phase = "forceful" -> timeout + OrZero(backoff) - age
      [] phase = "polling"  -> polling
      [] OTHER              -> None

\* The reason that branch sets when it is not set yet (None: no reason).
PhaseReason(phase) ==
    CASE phase = "graceful"  -> "DAEMON_SIGNALLED"
      [] phase = "forceful"  -> "DAEMON_CANCELLED"
      [] phase = "abandoned" -> "DAEMON_ABANDONED"
      [] OTHER               -> "none"

\* What that branch logs, warns and calls when it sets its reason.
PhaseEvents(phase) ==
    CASE phase = "graceful"  -> {"signal_log"}
      [] phase = "forceful"  -> {"force_log", "cancel_call"}
      [] phase = "abandoned" -> {"abandon_log", "leak_warning"}
      [] OTHER               -> {}

\* A test that finds the reason unset on every visit, to see that
\* EscalatedOnce rests on the test.
FreshAlways(s, reason) == reason # "none"

\* if not stopper.is_set(reason=...)
Fresh(s, reason) == reason # "none" /\ reason \notin s.reasons

\* The part of one round of the loop after the yield, for the k-th daemon:
\* st holds the tasks, stoppers, ghosts and the delays collected so far.
StopVisit(st, k, age, was_done) ==
    LET i == daemons[k].task
        h == handlers[daemons[k].id]
        s == st.stoppers[i]
        phase == Phase(TaskDone(st.tasks[i]), Backoff(h), Timeout(h), age)
        delay == PhaseDelay(phase, Backoff(h), Timeout(h), Polling(h), age)
        reason == PhaseReason(phase)
        fresh == Fresh(s, reason)
        s1 == IF fresh THEN StopperSet(s, reason, now) ELSE s
        cancel == fresh /\ "cancel_call" \in PhaseEvents(phase)
        g1 == IF fresh THEN Note(st.ghost[i], "deletion", PhaseEvents(phase))
                       ELSE st.ghost[i]
        g2 == IF cancel
              THEN [g1 EXCEPT !.cancelled_with = @ \cup {[by |-> "deletion", age |-> age, at |-> now,
                                                          reasons |-> s1.reasons]}]
              ELSE g1
        visit == [age |-> age, was_done |-> was_done, is_done |-> TaskDone(st.tasks[i]),
                  phase |-> phase, fresh |-> fresh, delay |-> delay]
        g3 == [g2 EXCEPT !.last = visit,
                         !.first = IF @ = NoVisit THEN visit ELSE @]
    IN  [tasks |-> IF cancel THEN [st.tasks EXCEPT ![i] = TaskCancel(@)] ELSE st.tasks,
         stoppers |-> [st.stoppers EXCEPT ![i] = s1],
         ghost |-> [st.ghost EXCEPT ![i] = g3],
         delays |-> IF delay = None THEN st.delays ELSE Append(st.delays, delay)]

\* age = now - (stopper.when or now)
Age(s, at) == IF s.when = None THEN 0 ELSE at - s.when

\* The part of one round of the loop before the yield, for the k-th daemon;
\* then the call is suspended, or has raised on an unsupported handler.
StopEnter(st, k, at, res) ==
    LET i == daemons[k].task
        h == handlers[daemons[k].id]
    IN  IF ~Supported(h)
        THEN /\ proc' = Idle
             /\ stop_result' = [res EXCEPT !.status = "raised", !.delays = <<>>]
             /\ tasks' = st.tasks
             /\ stoppers' = st.stoppers
             /\ ghost' = st.ghost
        ELSE /\ proc' = [pc |-> "yield", now |-> at, k |-> k,
                         age |-> Age(st.stoppers[i], at),
                         was_done |-> TaskDone(st.tasks[i]), delays |-> st.delays]
             /\ stop_result' = [res EXCEPT !.status = "running", !.delays = <<>>]
             /\ tasks' = st.tasks
             /\ stoppers' = [st.stoppers EXCEPT
                               ![i] = StopperSet(@, "RESOURCE_DELETED", now)]
             /\ ghost' = st.ghost

\* A return that asks for a re-check when it has nothing to wait for, to see
\* that NoDaemonsNoDelay rests on the delays being those of the daemons only.
StopReturnPolling(st, res) ==
    /\ proc' = Idle
    /\ stop_result' = [res EXCEPT !.status = "returned",
                                  !.delays = IF st.delays = <<>>
                                             THEN <<DAEMON_POLLING_INTERVAL>>
                                             ELSE st.delays]
    /\ tasks' = st.tasks
    /\ stoppers' = st.stoppers
    /\ ghost' = st.ghost

StopReturn(st, res) ==
    /\ proc' = Idle
    /\ stop_result' = [res EXCEPT !.status = "returned", !.delays = st.delays]
    /\ tasks' = st.tasks
    /\ stoppers' = st.stoppers
    /\ ghost' = st.ghost

\* The call, up to its first yield.
StopResourceDaemons ==
    /\ proc.pc = "idle"
    /\ stop_result.calls < limits.stop_calls
    /\ LET st == [tasks |-> tasks, stoppers |-> stoppers, ghost |-> ghost,
                  delays |-> <<>>]
           counted == [stop_result EXCEPT !.calls = @ + 1]
       IN  IF daemons = <<>>
           THEN StopReturn(st, counted)
           ELSE StopEnter(st, 1, now, counted)
    /\ UNCHANGED <<now, handlers, limits, live_fresh_body, idle_reset_time, daemons,
                   killer, stops, spawn_result, spawned>>

\* The call is resumed after asyncio.sleep(0): the rest of this round, and
\* the next round up to its yield, or the return.
StopResumed ==
    /\ proc.pc = "yield"
    /\ AllStarted
    /\ LET st == StopVisit([tasks |-> tasks, stoppers |-> stoppers, ghost |-> ghost,
                            delays |-> proc.delays], proc.k, proc.age, proc.was_done)
       IN  IF proc.k = Len(daemons)
           THEN StopReturn(st, stop_result)
           ELSE StopEnter(st, proc.k + 1, proc.now, stop_result)
    /\ UNCHANGED <<now, handlers, limits, live_fresh_body, idle_reset_time, daemons,
                   killer, stops, spawn_result, spawned>>

-----------------------------------------------------------------------------
(* daemon_killer and stop_daemon. *)

\* A stop_daemon coroutine: where it is, the end of its wait, and when it
\* began, signalled the daemon, cancelled the task and abandoned it, and
\* whether the task was done when the wait for the backoff ended.
NewStop == [pc |-> "new", deadline |-> 0, began |-> None, signalled_at |-> None,
            graceful |-> "none", cancelled_at |-> None, abandoned_at |-> None]

\* The operator begins its shutdown: the killer is cancelled in its wait and
\* gathers one stop_daemon coroutine per daemon record; with none it returns.
KillerCancelled ==
    /\ killer.pc = "waiting"
    /\ killer' = [pc |-> IF daemons = <<>> THEN "done" ELSE "stopping", at |-> now]
    /\ stops' = [k \in DOMAIN daemons |-> NewStop]
    /\ UNCHANGED <<now, handlers, limits, live_fresh_body, idle_reset_time, daemons,
                   tasks, stoppers, proc, spawn_result, stop_result, spawned, ghost>>

Stopped(k, stop, t, s, g) ==
    /\ stops' = [stops EXCEPT ![k] = stop]
    /\ tasks' = [tasks EXCEPT ![daemons[k].task] = t]
    /\ stoppers' = [stoppers EXCEPT ![daemons[k].task] = s]
    /\ ghost' = [ghost EXCEPT ![daemons[k].task] = g]
    /\ UNCHANGED <<now, handlers, limits, live_fresh_body, idle_reset_time, daemons,
                   proc, killer, spawn_result, stop_result, spawned>>

\* A killer that awaits the coroutines one after the other, to see that
\* KillerConcurrent rests on asyncio.wait.
CanBeginInTurn(k) ==
    /\ killer.pc = "stopping"
    /\ stops[k].pc = "new"
    /\ \A j \in 1..(k - 1) : stops[j].pc \in {"returned", "raised"}

\* asyncio.wait(coros) runs the gathered coroutines as tasks of their own.
CanBegin(k) == killer.pc = "stopping" /\ stops[k].pc = "new"

\* stop_daemon up to its yield: the handler's kind, then OPERATOR_EXITING.
StopDaemonBegin(k) ==
    /\ CanBegin(k)
    /\ LET i == daemons[k].task
       IN  IF ~Supported(handlers[daemons[k].id])
           THEN Stopped(k, [stops[k] EXCEPT !.pc = "raised"],
                        tasks[i], stoppers[i], ghost[i])
           ELSE Stopped(k, [stops[k] EXCEPT !.pc = "yield", !.began = now], tasks[i],
                        StopperSet(stoppers[i], "OPERATOR_EXITING", now), ghost[i])

\* A last step that returns and leaves the task as it is, to see that
\* StopDaemonOutcome rests on the last test of stop_daemon.
StopDaemonLeave(k, stop, t, s, g) ==
    Stopped(k, [stop EXCEPT !.pc = "returned"], t, s, g)

\* The last step of stop_daemon: the daemon is abandoned unless it is done.
StopDaemonAbandon(k, stop, t, s, g) ==
    IF ~TaskDone(t)
    THEN Stopped(k, [stop EXCEPT !.pc = "returned", !.abandoned_at = now], t,
                 StopperSet(s, "DAEMON_ABANDONED", now),
                 Note(g, "exiting", {"abandon_log", "leak_warning"}))
    ELSE Stopped(k, [stop EXCEPT !.pc = "returned"], t, s, g)

\* A forceful step that cancels the task and leaves the stopper as it is, to
\* see that StopperSetBeforeCancel rests on the order of the two calls.
StopDaemonForceUnset(k, stop, t, s, g) ==
    LET timeout == Timeout(handlers[daemons[k].id])
    IN  IF ~TaskDone(t) /\ timeout # None
        THEN Stopped(k, [stop EXCEPT !.pc = "timeout", !.deadline = now + timeout,
                                     !.cancelled_at = now],
                     TaskCancel(t), s,
                     [Note(g, "exiting", {"force_log", "cancel_call"})
                        EXCEPT !.cancelled_with = @ \cup {[by |-> "exiting",
                                                           age |-> Age(s, now), at |-> now,
                                                           reasons |-> s.reasons]}])
        ELSE StopDaemonAbandon(k, stop, t, s, g)

\* The step before: the task is cancelled and awaited for the timeout.
StopDaemonForce(k, stop, t, s, g) ==
    LET timeout == Timeout(handlers[daemons[k].id])
        s1 == StopperSet(s, "DAEMON_CANCELLED", now)
    IN  IF ~TaskDone(t) /\ timeout # None
        THEN Stopped(k, [stop EXCEPT !.pc = "timeout", !.deadline = now + timeout,
                                     !.cancelled_at = now],
                     TaskCancel(t), s1,
                     [Note(g, "exiting", {"force_log", "cancel_call"})
                        EXCEPT !.cancelled_with = @ \cup {[by |-> "exiting",
                                                           age |-> Age(s, now), at |-> now,
                                                           reasons |-> s1.reasons]}])
        ELSE StopDaemonAbandon(k, stop, t, s, g)

\* A wait for the backoff that ends at stopper.when + backoff, to see that
\* BudgetsByProtocol rests on the wait counted from the call.
StopDaemonSignalFromWhen(k, stop, t, s, g) ==
    LET backoff == Backoff(handlers[daemons[k].id])
    IN  IF ~TaskDone(t) /\ backoff # None
        THEN Stopped(k, [stop EXCEPT !.pc = "backoff", !.deadline = s.when + backoff,
                                     !.signalled_at = now], t,
                     StopperSet(s, "DAEMON_SIGNALLED", now),
                     Note(g, "exiting", {"signal_log"}))
        ELSE StopDaemonForce(k, stop, t, s, g)

\* The step before: the daemon is signalled and awaited for the backoff.
StopDaemonSignal(k, stop, t, s, g) ==
    LET backoff == Backoff(handlers[daemons[k].id])
    IN  IF ~TaskDone(t) /\ backoff # None
        THEN Stopped(k, [stop EXCEPT !.pc = "backoff", !.deadline = now + backoff,
                                     !.signalled_at = now], t,
                     StopperSet(s, "DAEMON_SIGNALLED", now),
                     Note(g, "exiting", {"signal_log"}))
        ELSE StopDaemonForce(k, stop, t, s, g)

\* stop_daemon is resumed after asyncio.sleep(0).
StopDaemonYielded(k) ==
    /\ stops[k].pc = "yield"
    /\ AllStarted
    /\ LET i == daemons[k].task
       IN  StopDaemonSignal(k, stops[k], tasks[i], stoppers[i], ghost[i])

\* asyncio.wait([daemon.task], timeout=...) returns: the task is done or the
\* time is over.
WaitOver(k) ==
    TaskDone(tasks[daemons[k].task]) \/ now >= stops[k].deadline

StopDaemonWaited(k) ==
    /\ stops[k].pc \in {"backoff", "timeout"}
    /\ WaitOver(k)
    /\ LET i == daemons[k].task
       IN  IF stops[k].pc = "backoff"
           THEN StopDaemonForce(k, [stops[k] EXCEPT !.graceful =
                                       IF TaskDone(tasks[i]) THEN "yes" ELSE "no"],
                                tasks[i], stoppers[i], ghost[i])
           ELSE StopDaemonAbandon(k, stops[k], tasks[i], stoppers[i], ghost[i])

\* A killer that clears the daemon table once the daemons are stopped, to
\* see that RecordsKept rests on the table being left alone.
KillerReturnCleared ==
    /\ killer.pc = "stopping"
    /\ \A k \in DOMAIN stops : stops[k].pc \in {"returned", "raised"}
    /\ killer' = [killer EXCEPT !.pc = "done"]
    /\ daemons' = <<>>
    /\ UNCHANGED <<now, handlers, limits, live_fresh_body, idle_reset_time,
                   tasks, stoppers, proc, stops, spawn_result, stop_result, spawned, ghost>>

\* asyncio.wait(coros) returns once every stop_daemon has ended.
KillerReturn ==
    /\ killer.pc = "stopping"
    /\ \A k \in DOMAIN stops : stops[k].pc \in {"returned", "raised"}
    /\ killer' = [killer EXCEPT !.pc = "done"]
    /\ UNCHANGED <<now, handlers, limits, live_fresh_body, idle_reset_time, daemons,
                   tasks, stoppers, proc, stops, spawn_result, stop_result, spawned, ghost>>

-----------------------------------------------------------------------------
(* The clock.  What is ready on the event loop runs before the clock moves: *)
(* a created task, a coroutine in a zero sleep, a sleep or wait whose time  *)
(* has come, a pending cancellation.                                        *)

LoopBusy ==
    \/ \E i \in DOMAIN tasks : RunnerReady(i)
    \/ proc.pc = "yield"
    \/ \E k \in DOMAIN stops :
          \/ CanBegin(k)
          \/ stops[k].pc = "yield"
          \/ stops[k].pc \in {"backoff", "timeout"} /\ WaitOver(k)
    \/ killer.pc = "stopping" /\ \A k \in DOMAIN stops : stops[k].pc \in {"returned", "raised"}

Tick ==
    /\ now < limits.time
    /\ ~LoopBusy
    /\ now' = now + 1
    /\ UNCHANGED <<handlers, limits, live_fresh_body, idle_reset_time, daemons, tasks,
                   stoppers, proc, killer, stops, spawn_result, stop_result, spawned, ghost>>

-----------------------------------------------------------------------------
(* The specifications. *)

Optional(S) == {None} \cup S

\* The state once the memory of a resource is created and its first event
\* is being processed (with or without a body remembered), for one of the
\* registries and the bounds of the run.
InitWith(registries, bounds) ==
    /\ now = 0
    /\ handlers \in registries
    /\ limits = bounds
    /\ live_fresh_body \in BOOLEAN
    /\ idle_reset_time = 0
    /\ daemons = <<>>
    /\ tasks = <<>>
    /\ stoppers = <<>>
    /\ ghost = <<>>
    /\ proc = Idle
    /\ killer = [pc |-> "waiting", at |-> None]
    /\ stops = <<>>
    /\ spawn_result = [status |-> "none", delays |-> <<>>, finished |-> {}]
    /\ stop_result = [status |-> "none", delays |-> <<>>, calls |-> 0]
    /\ spawned = [h \in DOMAIN handlers |-> 0]

Runner ==
    \E i \in DOMAIN tasks :
        \/ RunnerStart(i)
        \/ RunnerWake(i)
        \/ HandlerReturn(i)
        \/ PatchDone(i)
        \/ PatchFail(i)
        \/ CancelDeliver(i)
        \/ CancelSwallow(i)

Spawning == \E hs \in HandlerLists : SpawnResourceDaemons(hs)

Deletion == StopResourceDaemons \/ StopResumed

Exiting ==
    \/ KillerCancelled
    \/ \E k \in DOMAIN stops : StopDaemonBegin(k)
    \/ \E k \in DOMAIN stops : StopDaemonYielded(k)
    \/ \E k \in DOMAIN stops : StopDaemonWaited(k)
    \/ KillerReturn

\* The settings of the handlers of a run.
Delays == {0, 1}

DaemonHandlers ==
    {DaemonHandler(None, b, t, None) : b \in Optional(Delays), t \in Optional(Delays)}

TimerHandlers == {TimerHandler(None, 1, None, FALSE)}

OneShotTimer == TimerHandler(None, None, None, FALSE)

OneHandler == [{"h1"} -> DaemonHandlers \cup TimerHandlers \cup {OtherHandler}]

Pairs(H1, H2) == {[h \in {"h1", "h2"} |-> IF h = "h1" THEN x ELSE y] : x \in H1, y \in H2}

\* Everything together: the handlers are spawned, the resource is deleted
\* and the operator exits, in any order.
Init ==
    \/ InitWith(OneHandler,
                [time |-> MaxTime, stop_calls |-> MaxStopCalls,
                 spawn_calls |-> MaxSpawnCalls, runs |-> 0])
    \/ InitWith(Pairs({DaemonHandler(None, 0, 1, None)}, {OtherHandler}),
                [time |-> PairTime, stop_calls |-> PairStopCalls,
                 spawn_calls |-> MaxSpawnCalls, runs |-> 0])

Next == Runner \/ Spawning \/ Deletion \/ Exiting \/ Tick

Spec == Init /\ [][Next]_vars

\* The deletion of a resource in a running operator.
DeletionInit ==
    InitWith(OneHandler \cup Pairs({DaemonHandler(1, 1, 1, 1)} \cup TimerHandlers,
                                   {OneShotTimer, OtherHandler}),
             [time |-> MaxTime, stop_calls |-> MaxStopCalls, spawn_calls |-> 1, runs |-> 0])

DeletionNext == Runner \/ Spawning \/ Deletion \/ Tick

DeletionSpec == DeletionInit /\ [][DeletionNext]_vars

\* The escalation of the deletion for a daemon with a backoff of 5 and a
\* timeout of 10.
EscalationInit ==
    InitWith([{"h1"} -> {DaemonHandler(None, 5, 10, None)}],
             [time |-> EscalationTime, stop_calls |-> EscalationCalls, spawn_calls |-> 1,
              runs |-> 0])

EscalationSpec == EscalationInit /\ [][DeletionNext]_vars

\* The exit of the operator with two daemons.
ExitingInit ==
    InitWith(Pairs({DaemonHandler(None, 1, 1, None)},
                   {DaemonHandler(None, 1, 1, None), OneShotTimer, OtherHandler}),
             [time |-> MaxTime, stop_calls |-> 0, spawn_calls |-> 1, runs |-> 0])

ExitingNext == Runner \/ Spawning \/ Exiting \/ Tick

ExitingSpec == ExitingInit /\ [][ExitingNext]_vars

\* The daemons at work: the invocations are counted, the resource is deleted
\* at most once.
RetryInit ==
    InitWith([{"h1"} -> {DaemonHandler(d, b, 1, None) : d \in Optional({1}), b \in Delays}],
             [time |-> RetryTime, stop_calls |-> 1, spawn_calls |-> 1, runs |-> MaxRuns])

RetrySpec == RetryInit /\ [][DeletionNext]_vars

\* The runners of the timers: no timer has a timeout, so that no task is
\* cancelled.
Uncancelled ==
    \E i \in DOMAIN tasks :
        \/ RunnerStart(i)
        \/ RunnerWake(i)
        \/ HandlerReturn(i)
        \/ PatchDone(i)
        \/ PatchFail(i)

TimerNext == Uncancelled \/ Spawning \/ Deletion \/ Tick

\* The timers with an idle setting of 3, with and without an interval,
\* while the watch path sees events of the resource.
IdleInit ==
    InitWith([{"h1"} -> {TimerHandler(None, i, 3, FALSE) : i \in Optional({1})}],
             [time |-> IdleTime, stop_calls |-> 1, spawn_calls |-> 1, runs |-> MaxRuns])

IdleNext == TimerNext \/ WatchEvent

IdleSpec == IdleInit /\ [][IdleNext]_vars

\* The same, on an event loop that runs what is ready: a runner whose step
\* is possible does not wait forever.
IdleLiveSpec == IdleSpec /\ WF_vars(Uncancelled)

\* The runners in each of their sleeps (the initial delay, the idle gate,
\* the retry and the interval), while the resource is deleted or the
\* operator exits.
StoppingInit ==
    InitWith([{"h1"} -> {DaemonHandler(1, 0, 1, None),
                         TimerHandler(1, 2, None, FALSE),
                         TimerHandler(None, 2, None, TRUE),
                         TimerHandler(None, 2, 2, FALSE),
                         TimerHandler(None, None, 2, FALSE)}],
             [time |-> StoppingTime, stop_calls |-> 1, spawn_calls |-> 1, runs |-> MaxRuns])

StoppingNext == Next \/ WatchEvent

StoppingSpec == StoppingInit /\ [][StoppingNext]_vars

\* The handlers without a cancellation timeout: the daemons, with and
\* without a backoff and with each kind of polling setting, and a timer.
PollingInit ==
    InitWith([{"h1"} -> {DaemonHandler(None, b, None, p) :
                             b \in Optional({1}), p \in Optional({0, 2})}
                        \cup TimerHandlers],
             [time |-> MaxTime, stop_calls |-> PollingCalls, spawn_calls |-> 1, runs |-> 0])

PollingSpec == PollingInit /\ [][TimerNext]_vars

\* The timers of each schedule (a sharp and a regular interval of 3, an
\* idle setting of 2 with and without the interval, and neither) with
\* invocations that fail and are retried after a delay of 1..MaxRetryDelay.
ScheduleInit ==
    InitWith([{"h1"} -> {TimerHandler(None, 3, None, TRUE),
                         TimerHandler(None, 3, None, FALSE),
                         TimerHandler(None, 3, 2, FALSE),
                         TimerHandler(None, None, 2, FALSE),
                         OneShotTimer}],
             [time |-> ScheduleTime, stop_calls |-> 1, spawn_calls |-> 1, runs |-> MaxRuns])

ScheduleSpec == ScheduleInit /\ [][IdleNext]_vars

\* The timers with an interval of 5, sharp and regular.
GridInit ==
    InitWith([{"h1"} -> {TimerHandler(None, 5, None, sharp) : sharp \in BOOLEAN}],
             [time |-> GridTime, stop_calls |-> 1, spawn_calls |-> 1, runs |-> MaxRuns])

GridSpec == GridInit /\ [][TimerNext]_vars

-----------------------------------------------------------------------------
(* The properties. *)

TasksOf(h) == {i \in DOMAIN tasks : tasks[i].hid = h}
RecordsOf(h) == {k \in DOMAIN daemons : daemons[k].id = h}

\* Whatever the calls so far: a handler id that no call has listed has no
\* record and no task; one that some call has listed has one record and one
\* task, the record's; and a call that returned has returned no delays.
SpawnOnce ==
    /\ \A h \in DOMAIN handlers :
          IF spawned[h] = 0
          THEN TasksOf(h) = {} /\ RecordsOf(h) = {}
          ELSE /\ Cardinality(TasksOf(h)) = 1
               /\ Cardinality(RecordsOf(h)) = 1
               /\ \A k \in RecordsOf(h) : daemons[k].task \in TasksOf(h)
    /\ spawn_result.status = "returned" => spawn_result.delays = <<>>

\* A call that lists only handler ids that an earlier call has listed leaves
\* the daemon table, the tasks and the stoppers as they are and returns no
\* delays.
SpawnAgain ==
    (/\ spawned' # spawned
     /\ \A h \in DOMAIN handlers : spawned'[h] # spawned[h] => spawned[h] >= 1)
    => /\ daemons' = daemons
       /\ tasks' = tasks
       /\ stoppers' = stoppers
       /\ spawn_result'.status = "returned"
       /\ spawn_result'.delays = <<>>

\* C1: spawn_resource_daemons is idempotent: repeated calls with the same
\* handler list leave the daemon table of the first call, create one runner
\* task per handler id in total, and return no delays on every call.
SpawnIdempotent == []SpawnOnce /\ [][SpawnAgain]_vars

\* Two handler ids, both listed by two calls, with their two records.
SpawnedTwice ==
    /\ Cardinality(DOMAIN handlers) = 2
    /\ \A h \in DOMAIN handlers : spawned[h] = 2
    /\ Len(daemons) = 2
    /\ spawn_result.status = "returned"

\* C2: under every interleaving of spawn calls, stop-for-deletion calls and
\* the killer, each daemon id has at most one runner task that is created
\* and not finished.
OneLiveRunner ==
    \A h \in DOMAIN handlers :
        Cardinality({i \in TasksOf(h) : ~TaskDone(tasks[i])}) <= 1

\* A runner that lives while its handler was listed twice, a deletion call
\* is suspended in its yield and the killer is stopping the daemons.
LiveAmongAll ==
    \E i \in DOMAIN tasks :
        /\ ~TaskDone(tasks[i])
        /\ spawned[tasks[i].hid] = 2
        /\ proc.pc = "yield"
        /\ killer.pc = "stopping"

\* C3: a runner task that has finished, on whatever exit path, has DONE in
\* its stopper's reasons.
DoneOnEveryExit ==
    \A i \in DOMAIN tasks : TaskDone(tasks[i]) => "DONE" \in stoppers[i].reasons

\* A runner that ended by the cancellation of its task.
ExitedCancelled ==
    \E i \in DOMAIN tasks : tasks[i].pc = "cancelled" /\ "DONE" \in stoppers[i].reasons

\* C4: at every cancel call of the supervisor, DAEMON_CANCELLED and the
\* reason of the protocol (RESOURCE_DELETED in stop_resource_daemons,
\* OPERATOR_EXITING in stop_daemon) are set on the stopper already, and no
\* task has a cancellation requested while its stopper is unset.
StopperSetBeforeCancel ==
    \A i \in DOMAIN tasks :
        /\ \A c \in ghost[i].cancelled_with :
              /\ "DAEMON_CANCELLED" \in c.reasons
              /\ c.by = "deletion" => "RESOURCE_DELETED" \in c.reasons
              /\ c.by = "exiting" => "OPERATOR_EXITING" \in c.reasons
        /\ tasks[i].must_cancel => IsSet(stoppers[i])
        /\ tasks[i].pc = "cancelled" => ghost[i].cancelled_with # {}

\* A task with a cancellation of the killer requested and not yet delivered.
CancelRequested ==
    \E i \in DOMAIN tasks :
        /\ tasks[i].must_cancel
        /\ \E c \in ghost[i].cancelled_with : c.by = "exiting"

\* What one visit of a task that had not exited owes to the age it found,
\* for a backoff b and a timeout t: the delay, the reason, the cancel call,
\* the warning.
Escalated(i, v, b, t) ==
    /\ v.age < b =>
          /\ v.delay = b - v.age
          /\ "DAEMON_SIGNALLED" \in stoppers[i].reasons
    /\ b <= v.age /\ v.age < b + t =>
          /\ v.delay = b + t - v.age
          /\ "DAEMON_CANCELLED" \in stoppers[i].reasons
          /\ ghost[i].count["deletion"]["cancel_call"] = 1
          /\ \E c \in ghost[i].cancelled_with : c.by = "deletion"
    /\ b + t <= v.age =>
          /\ v.delay = None
          /\ "DAEMON_ABANDONED" \in stoppers[i].reasons
          /\ ghost[i].count["deletion"]["leak_warning"] = 1

\* What the last call returned, for the only daemon.
Returned(delays) ==
    stop_result.status = "returned" /\ Len(daemons) = 1 => stop_result.delays = delays

\* C5: for a daemon with a backoff B and a timeout T whose task has not
\* exited, a call of stop_resource_daemons contributes B - age while
\* age < B and B + T - age while B <= age < B + T, the age counted from the
\* first set of the stopper (0 on the first call); with B = 5 and T = 10,
\* the calls at 0, 5 and 15 return [5] with DAEMON_SIGNALLED, [10] with
\* DAEMON_CANCELLED and the task cancelled, [] with DAEMON_ABANDONED and the
\* leak warning.
EscalationDelays ==
    \A i \in DOMAIN tasks :
        LET h == Handler(i)
            first == ghost[i].first
            last == ghost[i].last
        IN  /\ first.phase # "none" /\ ~first.is_done =>
                  /\ first.age = 0
                  /\ Escalated(i, first, h.cancellation_backoff, h.cancellation_timeout)
            /\ last.phase # "none" /\ ~last.is_done =>
                  /\ Escalated(i, last, h.cancellation_backoff, h.cancellation_timeout)
                  /\ h.cancellation_backoff = 5 /\ h.cancellation_timeout = 10 =>
                        /\ last.age = 0 =>
                              /\ Returned(<<5>>)
                              /\ "DAEMON_SIGNALLED" \in stoppers[i].reasons
                        /\ last.age = 5 =>
                              /\ Returned(<<10>>)
                              /\ "DAEMON_CANCELLED" \in stoppers[i].reasons
                              /\ ghost[i].count["deletion"]["cancel_call"] = 1
                        /\ last.age = 15 =>
                              /\ Returned(<<>>)
                              /\ "DAEMON_ABANDONED" \in stoppers[i].reasons
                              /\ ghost[i].count["deletion"]["leak_warning"] = 1

\* The three calls at 0, 5 and 15 on a task that is still running.
EscalatedToTheEnd ==
    \E i \in DOMAIN tasks :
        /\ stop_result.calls = 3
        /\ stop_result.status = "returned"
        /\ stop_result.delays = <<>>
        /\ ~TaskDone(tasks[i])
        /\ ghost[i].first.phase = "graceful" /\ ghost[i].first.delay = 5
        /\ \E c \in ghost[i].cancelled_with : c.by = "deletion" /\ c.age = 5
        /\ ghost[i].last.phase = "abandoned" /\ ghost[i].last.age = 15
        /\ ghost[i].count["deletion"]["leak_warning"] = 1

\* A daemon handler with both a backoff and a timeout.
Deadlined(h) ==
    h.kind = "daemon" /\ h.cancellation_backoff # None /\ h.cancellation_timeout # None

Has(i, reason) == reason \in stoppers[i].reasons

\* C6, as stated: for a daemon with a backoff and a timeout whose task has
\* not exited, under any calls of stop_resource_daemons, no phase is
\* skipped: DAEMON_ABANDONED is never set on a stopper that lacks
\* DAEMON_CANCELLED, nor DAEMON_CANCELLED on one that lacks DAEMON_SIGNALLED.
NoPhaseSkipped ==
    \A i \in DOMAIN tasks :
        Deadlined(Handler(i)) =>
            /\ Has(i, "DAEMON_ABANDONED") => Has(i, "DAEMON_CANCELLED")
            /\ Has(i, "DAEMON_CANCELLED") => Has(i, "DAEMON_SIGNALLED")

\* One step sets the reasons in their order for task i: DAEMON_SIGNALLED is
\* not set once DAEMON_CANCELLED or DAEMON_ABANDONED is, DAEMON_CANCELLED is
\* not set once DAEMON_ABANDONED is.
InOrder(i) ==
    /\ "DAEMON_SIGNALLED" \in stoppers'[i].reasons \ stoppers[i].reasons =>
          ~Has(i, "DAEMON_CANCELLED") /\ ~Has(i, "DAEMON_ABANDONED")
    /\ "DAEMON_CANCELLED" \in stoppers'[i].reasons \ stoppers[i].reasons =>
          ~Has(i, "DAEMON_ABANDONED")

\* C6, amended: for a daemon with a backoff and a timeout, under any calls
\* of stop_resource_daemons at non-decreasing times, the reasons are set in
\* the order DAEMON_SIGNALLED, DAEMON_CANCELLED, DAEMON_ABANDONED: none is
\* set after a later one.  A phase whose window has no visit is skipped.
ReasonsInOrder ==
    [][\A i \in DOMAIN tasks : Deadlined(Handler(i)) => InOrder(i)]_vars

\* A task signalled by a first call and abandoned by a late second call,
\* never cancelled.
AbandonedUncancelled ==
    \E i \in DOMAIN tasks :
        /\ Deadlined(Handler(i))
        /\ Handler(i).cancellation_backoff > 0 /\ Handler(i).cancellation_timeout > 0
        /\ Has(i, "DAEMON_SIGNALLED") /\ Has(i, "DAEMON_ABANDONED")
        /\ ~Has(i, "DAEMON_CANCELLED")
        /\ ghost[i].count["deletion"]["cancel_call"] = 0

\* C7: for a daemon with a backoff of 0 and a timeout of 0 whose task does
\* not exit within the yield, the first call of stop_resource_daemons sets
\* DAEMON_CANCELLED and cancels the task, without DAEMON_ABANDONED, and only
\* the second call sets DAEMON_ABANDONED and warns of the leak.
CancelledThenAbandoned ==
    \A i \in DOMAIN tasks :
        LET h == Handler(i)
            first == ghost[i].first
        IN  (/\ h.kind = "daemon"
             /\ h.cancellation_backoff = 0 /\ h.cancellation_timeout = 0
             /\ first.phase # "none" /\ ~first.is_done)
            => /\ first.phase = "forceful"
               /\ Has(i, "DAEMON_CANCELLED")
               /\ ghost[i].count["deletion"]["cancel_call"] = 1
               /\ stop_result.calls = 1 =>
                     /\ ~Has(i, "DAEMON_ABANDONED")
                     /\ ghost[i].count["deletion"]["leak_warning"] = 0

\* C8: over repeated calls of stop_resource_daemons on a daemon, the
\* graceful signal is logged at most once, the task is cancelled at most
\* once, the abandonment is logged and warned of at most once; a later call
\* in the graceful or the forceful window only contributes its delay.
EscalatedOnce ==
    \A i \in DOMAIN tasks :
        LET last == ghost[i].last
            h == Handler(i)
        IN  /\ \A e \in Events : ghost[i].count["deletion"][e] <= 1
            /\ last.phase \in {"graceful", "forceful"} /\ ~last.fresh =>
                  /\ \A e \in PhaseEvents(last.phase) : ghost[i].count["deletion"][e] = 1
                  /\ last.delay = PhaseDelay(last.phase, Backoff(h), Timeout(h),
                                             Polling(h), last.age)
                  /\ last.delay # None

\* A second call in the graceful window: the signal is set and logged once.
SignalledTwice ==
    \E i \in DOMAIN tasks :
        /\ stop_result.calls = 2
        /\ stop_result.status = "returned"
        /\ ghost[i].first.phase = "graceful" /\ ghost[i].first.fresh
        /\ ghost[i].last.phase = "graceful" /\ ~ghost[i].last.fresh
        /\ ghost[i].count["deletion"]["signal_log"] = 1

\* C9: when the runner exits within the yield that follows the set of
\* RESOURCE_DELETED, stop_resource_daemons contributes no delay for it and
\* sets none of DAEMON_SIGNALLED, DAEMON_CANCELLED, DAEMON_ABANDONED, on
\* this call and on every later call; the stopper holds RESOURCE_DELETED and
\* DONE and nothing else.
NothingAfterExit ==
    \A i \in DOMAIN tasks :
        LET first == ghost[i].first
            last == ghost[i].last
        IN  /\ last.is_done => last.delay = None /\ ~last.fresh
            /\ first.is_done /\ ~first.was_done =>
                  /\ stoppers[i].reasons = {"RESOURCE_DELETED", "DONE"}
                  /\ first.delay = None
                  /\ last.is_done
                  /\ \A e \in Events : ghost[i].count["deletion"][e] = 0
                  /\ Len(daemons) = 1 => Returned(<<>>)

\* A runner that exited within the yield of the first call, after the
\* second call.
ExitedInTheYield ==
    \E i \in DOMAIN tasks :
        /\ ghost[i].first.is_done /\ ~ghost[i].first.was_done
        /\ Handler(i).cancellation_backoff = 1
        /\ stop_result.calls = 2
        /\ stop_result.status = "returned"
        /\ ghost[i].last.was_done

\* C10: once cancelled, the killer runs stop_daemon for every daemon record
\* at once and returns after all of them have: every daemon is signalled at
\* the instant the killer was cancelled, whatever the other daemons do; a
\* daemon that exits within its backoff is neither cancelled nor abandoned;
\* one that does not exit is cancelled after the backoff and abandoned after
\* the backoff and the timeout.
KillerConcurrent ==
    /\ killer.pc = "done" => \A k \in DOMAIN stops : stops[k].pc \in {"returned", "raised"}
    /\ \A k \in DOMAIN stops :
          LET stop == stops[k]
              i == daemons[k].task
              h == handlers[daemons[k].id]
              exiting == ghost[i].count["exiting"]
          IN  /\ stop.pc # "new" /\ Supported(h) => stop.began = killer.at
              /\ stop.signalled_at # None => stop.signalled_at = killer.at
              /\ stop.cancelled_at # None =>
                    /\ stop.cancelled_at = stop.began + OrZero(Backoff(h))
                    /\ Has(i, "DAEMON_CANCELLED")
                    /\ exiting["cancel_call"] = 1
              /\ stop.abandoned_at # None =>
                    /\ stop.abandoned_at = stop.began + OrZero(Backoff(h)) + OrZero(Timeout(h))
                    /\ Has(i, "DAEMON_ABANDONED")
                    /\ exiting["leak_warning"] = 1
              /\ stop.graceful = "yes" =>
                    /\ stop.cancelled_at = None /\ stop.abandoned_at = None
                    /\ exiting["cancel_call"] = 0 /\ exiting["leak_warning"] = 0
                    /\ ~Has(i, "DAEMON_CANCELLED") /\ ~Has(i, "DAEMON_ABANDONED")
              /\ stop.pc = "returned" /\ Deadlined(h) /\ ~TaskDone(tasks[i]) =>
                    /\ stop.signalled_at = killer.at
                    /\ stop.cancelled_at = killer.at + h.cancellation_backoff
                    /\ stop.abandoned_at = killer.at + h.cancellation_backoff
                                                      + h.cancellation_timeout

\* The killer has returned from two daemons with a backoff and a timeout of
\* 1: one exited within the backoff, the other never did.
CooperativeAndStuck ==
    /\ killer.pc = "done"
    /\ \E k1, k2 \in DOMAIN stops :
          /\ Deadlined(handlers[daemons[k1].id]) /\ Deadlined(handlers[daemons[k2].id])
          /\ stops[k1].graceful = "yes"
          /\ TaskDone(tasks[daemons[k1].task])
          /\ ~TaskDone(tasks[daemons[k2].task])
          /\ stops[k2].signalled_at = killer.at
          /\ stops[k2].cancelled_at = killer.at + 1
          /\ stops[k2].abandoned_at = killer.at + 2

\* C11: a daemon record is never re-created: no step changes a record, and
\* a spawn_resource_daemons call that lists a handler id whose runner task
\* has finished, for whatever reason, makes no task and no stopper for it
\* and leaves its record and the finished task as they are.
NeverRespawned ==
    [][/\ \A k \in DOMAIN daemons : k \in DOMAIN daemons' /\ daemons'[k] = daemons[k]
       /\ \A k \in DOMAIN daemons :
             TaskDone(tasks[daemons[k].task]) =>
                 /\ {i \in DOMAIN tasks' : tasks'[i].hid = daemons[k].id}
                        = {daemons[k].task}
                 /\ {j \in DOMAIN daemons' : daemons'[j].id = daemons[k].id} = {k}
                 /\ tasks'[daemons[k].task] = tasks[daemons[k].task]
                 /\ Len(stoppers') = Len(tasks')]_vars

\* Spawn calls that came after the end of the runner, for each way a runner
\* ends: the return, the failure, the cancellation.
SpawnedAfterExit(how) ==
    \E h \in spawn_result.finished :
        /\ spawn_result.status = "returned"
        /\ spawned[h] = 2
        /\ \A i \in TasksOf(h) : tasks[i].pc = how

SpawnedAfterCancel == SpawnedAfterExit("cancelled")

\* C12: without a body in the memory, spawn_resource_daemons fails before
\* anything else: whatever the handler list, the call raises, the daemon
\* table stays as it is, no stopper is created and no task is started.
NoBodyNoSpawn ==
    /\ ~live_fresh_body =>
          /\ daemons = <<>> /\ tasks = <<>> /\ stoppers = <<>>
          /\ spawn_result.status \in {"none", "raised"}
          /\ spawn_result.delays = <<>>
    /\ spawn_result.status = "raised" => ~live_fresh_body

\* A call with two handlers has raised, and a deletion call has found the
\* table empty.
RaisedOnTwo ==
    /\ ~live_fresh_body
    /\ Cardinality(DOMAIN handlers) = 2
    /\ spawn_result.status = "raised"
    /\ stop_result.status = "returned"

IsDaemon(i) == Handler(i).kind = "daemon"

\* One step of the runner of a daemon i: once the state is done there is no
\* further invocation, and the sleep that follows ends in the exit; while
\* the state is not done and the stopper is unset, the sleep ends, when the
\* retry delay has passed, in the next invocation.
OnceOrRetried(i) ==
    LET t == tasks[i]
        u == tasks'[i]
    IN  /\ t.done => u.done /\ u.runs = t.runs /\ u.pc # "invoke"
        /\ t.done /\ t.pc = "sleep" /\ u.pc # t.pc => u.pc \in Finished
        /\ (/\ ~t.done /\ t.pc = "sleep" /\ u.pc # t.pc
            /\ ~t.must_cancel /\ ~IsSet(stoppers[i]))
           => /\ u.pc = "invoke"
              /\ u.runs = IF t.runs < MaxRuns THEN t.runs + 1 ELSE MaxRuns
              /\ now >= t.wake
        /\ u.pc = "invoke" /\ t.pc # "invoke" => ~IsSet(stoppers[i])

\* C13: a daemon handler runs at most once to success: after an invocation
\* that leaves the state done, the runner invokes no more and exits, with
\* the stopper unset; while the state is not done, the runner invokes again
\* after each retry delay, until the stopper is set.
OnceToSuccess ==
    [][\A i \in DOMAIN tasks : IsDaemon(i) => OnceOrRetried(i)]_vars

\* A daemon that succeeded on its last counted invocation, after the
\* retries, and has returned on its own: nothing but DONE is set.
RetriedThenDone ==
    \E i \in DOMAIN tasks :
        /\ IsDaemon(i)
        /\ tasks[i].runs = MaxRuns
        /\ tasks[i].done
        /\ tasks[i].pc = "returned"
        /\ stoppers[i].reasons = {"DONE"}
        /\ live_fresh_body

\* C14: the cancellation of a runner task by the supervisor is swallowed at
\* the boundary of the runner: the task ends as a return after DONE is set,
\* never in the cancelled state.
CancelSwallowedAtBoundary ==
    \A i \in DOMAIN tasks :
        /\ tasks[i].pc # "cancelled"
        /\ ghost[i].cancelled_with # {} /\ TaskDone(tasks[i]) =>
              tasks[i].pc = "returned" /\ Has(i, "DONE")

\* C15, as stated: in stop_resource_daemons and in stop_daemon alike, a
\* daemon with a backoff B and a timeout T that never exits is cancelled no
\* later than stopper.when + B and abandoned no later than
\* stopper.when + B + T, also when the other protocol had set the stopper
\* before.
BudgetsFromWhen ==
    \A i \in DOMAIN tasks :
        LET h == Handler(i)
            when == stoppers[i].when
        IN  Deadlined(h) =>
              /\ \A c \in ghost[i].cancelled_with :
                    c.at <= when + h.cancellation_backoff
              /\ \A k \in DOMAIN stops :
                    daemons[k].task = i /\ stops[k].abandoned_at # None =>
                        stops[k].abandoned_at
                            <= when + h.cancellation_backoff + h.cancellation_timeout

\* C15, amended: stop_resource_daemons counts from stopper.when, whichever
\* protocol set it: its cancel call falls at an age within
\* [backoff, backoff + timeout), at the visit that finds this age.
\* stop_daemon counts from its own begin, at or after stopper.when: it
\* cancels at begin + backoff and abandons at begin + backoff + timeout.
BudgetsByProtocol ==
    \A i \in DOMAIN tasks :
        LET h == Handler(i)
            when == stoppers[i].when
        IN  /\ \A c \in ghost[i].cancelled_with :
                  c.by = "deletion" =>
                      /\ OrZero(Backoff(h)) <= c.at - when
                      /\ c.at - when < OrZero(Backoff(h)) + Timeout(h)
            /\ \A k \in DOMAIN stops :
                  daemons[k].task = i =>
                      /\ stops[k].began # None => when # None /\ when <= stops[k].began
                      /\ stops[k].cancelled_at # None =>
                            stops[k].cancelled_at = stops[k].began + OrZero(Backoff(h))
                      /\ stops[k].abandoned_at # None =>
                            stops[k].abandoned_at = stops[k].began + OrZero(Backoff(h))
                                                                  + OrZero(Timeout(h))

\* A daemon deleted before the operator exits: stop_daemon cancels it later
\* than stopper.when + backoff and abandons it later than
\* stopper.when + backoff + timeout.
BudgetsStartAnew ==
    \E k \in DOMAIN stops :
        LET i == daemons[k].task
            h == Handler(i)
        IN  /\ Deadlined(h)
            /\ Has(i, "RESOURCE_DELETED")
            /\ stoppers[i].when < stops[k].began
            /\ stops[k].cancelled_at > stoppers[i].when + h.cancellation_backoff
            /\ stops[k].abandoned_at
                   > stoppers[i].when + h.cancellation_backoff + h.cancellation_timeout

\* The step that begins an invocation of task i: out of a sleep or at the
\* start of the task, or, for an idle-only timer whose idle time was reset
\* and has passed again during the invocation, at its return.
Fires(i) ==
    /\ tasks'[i].pc = "invoke"
    /\ tasks[i].pc # "invoke" \/ tasks'[i].started # tasks[i].started

\* One step of the runner of a timer i with an idle setting that begins an
\* invocation: the resource has been idle for the setting; out of the gate,
\* for exactly the setting; and after a success of a timer without an
\* interval, the idle time has been reset since the last invocation began.
IdleAtStart(i) ==
    LET t == tasks[i]
        h == Handler(i)
    IN  Fires(i) =>
          /\ now - idle_reset_time >= h.idle
          /\ t.pc = "idle_gate" => now - idle_reset_time = h.idle
          /\ h.idle = 3 /\ idle_reset_time = 4 /\ t.pc = "idle_gate" => now = 7
          /\ h.interval = None /\ t.first # None /\ t.delay = None =>
                idle_reset_time > t.started

\* C16: every invocation of a timer with an idle setting begins at an
\* instant where now - idle_reset_time >= idle, however the watch path moves
\* idle_reset_time during the wait: the wait is extended, never shortened;
\* with idle = 3 and the last reset at 4 the firing is at 7; a timer without
\* an interval fires again only after a further reset.
IdleGate ==
    [][\A i \in DOMAIN tasks :
          Handler(i).kind = "timer" /\ Handler(i).idle # None => IdleAtStart(i)]_vars

\* A first firing at 7, three after the last reset at 4.
FiredAtSeven ==
    \E i \in DOMAIN tasks :
        /\ Handler(i).idle = 3
        /\ tasks[i].pc = "invoke"
        /\ tasks[i].first = 7 /\ tasks[i].started = 7
        /\ idle_reset_time = 4
        /\ now = 7

IsTimer(i, sharp) ==
    /\ Handler(i).kind = "timer"
    /\ Handler(i).interval # None /\ Handler(i).idle = None
    /\ Handler(i).sharp = sharp

\* The step that ends an invocation of task i with a success, the patch
\* flushed, and begins the sleep to the next one.
Completes(i) ==
    /\ tasks[i].pc \in {"invoke", "patch"}
    /\ tasks'[i].pc = "sleep"
    /\ tasks'[i].done

\* The step that begins the invocation after a success.
FiresAgain(i) ==
    /\ tasks[i].pc = "sleep"
    /\ tasks[i].done
    /\ tasks'[i].pc = "invoke"

\* One step of a sharp timer i: an invocation begun at s and completed now is
\* followed by a sleep to the least s + k * interval after now, and the
\* next invocation begins at the end of this sleep.
OnTheGrid(i) ==
    LET t == tasks[i]
        u == tasks'[i]
        I == Handler(i).interval
    IN  /\ Completes(i) =>
              /\ u.wake > now
              /\ (u.wake - t.started) % I = 0
              /\ u.wake - I <= now
              /\ I = 5 /\ now = t.started + 2 => u.wake = t.started + 5
        /\ FiresAgain(i) => now = t.wake /\ u.started = now

\* C17: a sharp timer with an interval I, no idle setting and a handler
\* that always succeeds fires at its first firing instant plus multiples of
\* I, however long the invocations last: the firing after an invocation
\* begun at s and completed at c is at the least s + k * I after c.
SharpGrid ==
    /\ [][\A i \in DOMAIN tasks : IsTimer(i, TRUE) => OnTheGrid(i)]_vars
    /\ [](\A i \in DOMAIN tasks :
            IsTimer(i, TRUE) /\ tasks[i].first # None /\ ~tasks[i].retried =>
                (tasks[i].started - tasks[i].first) % Handler(i).interval = 0)

\* The third firing of a sharp timer at 10, after the first at 0 and with
\* no retry.
FiredOnTen ==
    \E i \in DOMAIN tasks :
        /\ IsTimer(i, TRUE)
        /\ tasks[i].first = 0 /\ tasks[i].runs = 3 /\ tasks[i].started = 10
        /\ ~tasks[i].retried
        /\ tasks[i].pc = "invoke"

\* One step of a regular timer i: an invocation completed now is followed by
\* a sleep of the interval, and the next invocation begins at its end.
AfterTheInterval(i) ==
    LET t == tasks[i]
        u == tasks'[i]
        I == Handler(i).interval
    IN  /\ Completes(i) =>
              /\ u.wake = now + I
              /\ I = 5 /\ now = t.started + 2 => u.wake = t.started + 7
        /\ FiresAgain(i) => now = t.wake /\ u.started = now

\* C18: a regular timer with an interval I and a handler that always
\* succeeds fires exactly I after the completion (the return of the handler
\* and the flush of the patch) of the invocation before: with I = 5 and
\* invocations of 2, at 0, 7, 14.
IntervalAfterCompletion ==
    [][\A i \in DOMAIN tasks : IsTimer(i, FALSE) => AfterTheInterval(i)]_vars

\* The third firing of a regular timer at 14, after the first at 0 and
\* with no retry.
FiredOnFourteen ==
    \E i \in DOMAIN tasks :
        /\ IsTimer(i, FALSE)
        /\ tasks[i].first = 0 /\ tasks[i].runs = 3 /\ tasks[i].started = 14
        /\ ~tasks[i].retried
        /\ tasks[i].pc = "invoke"

InProgress(i) == tasks[i].pc \in {"invoke", "patch"}

\* C19: the invocations of a handler on the resource never overlap: at most
\* one invocation of a handler id is in progress (begun, and not returned
\* with its patch flushed), and a runner begins an invocation only out of a
\* sleep or at its start.
InvocationsInTurn ==
    /\ [](\A h \in DOMAIN handlers :
            Cardinality({i \in TasksOf(h) : InProgress(i)}) <= 1)
    /\ [][\A i \in DOMAIN tasks :
            tasks'[i].pc = "invoke" /\ tasks[i].pc # "invoke" =>
                tasks[i].pc \in Sleeping \cup {"new"}]_vars

\* An invocation in progress for a handler id that two spawn calls have
\* listed, while a deletion call is suspended.
InvokedAmongCalls ==
    \E i \in DOMAIN tasks :
        /\ InProgress(i)
        /\ spawned[tasks[i].hid] = 2
        /\ proc.pc = "yield"

\* C20: a resource without daemons gets no delay from the supervisor:
\* spawn_resource_daemons returns no delays on every call, and
\* stop_resource_daemons on an empty daemon table returns no delays at once,
\* without a yield, and changes nothing, so that a handling cycle has nothing
\* to sleep for.
NoDaemonsNoDelay ==
    /\ [](/\ spawn_result.delays = <<>>
          /\ daemons = <<>> =>
                /\ proc = Idle
                /\ stop_result.status \in {"none", "returned"}
                /\ stop_result.delays = <<>>
                /\ tasks = <<>> /\ stoppers = <<>>)
    /\ [][daemons = <<>> /\ stop_result'.calls # stop_result.calls =>
            /\ stop_result'.status = "returned"
            /\ stop_result'.delays = <<>>
            /\ UNCHANGED <<now, daemons, tasks, stoppers, ghost, proc, killer, stops>>]_vars

\* A spawn call with no handlers and two deletion calls on the empty table
\* have returned.
ReturnedOnEmpty ==
    /\ live_fresh_body
    /\ daemons = <<>>
    /\ spawn_result.status = "returned"
    /\ stop_result.status = "returned"
    /\ stop_result.calls = 2

\* The runner of the one timer has its stopper set and no invocation in
\* progress.
TimerStopped ==
    /\ Len(tasks) >= 1
    /\ Handler(1).kind = "timer"
    /\ IsSet(stoppers[1])
    /\ tasks[1].pc \notin {"invoke", "patch"}

\* C21, as liveness under IdleLiveSpec: once its stopper is set and no
\* invocation is in progress, the runner of a timer exits, whatever its
\* interval and idle settings and without a further watch event.
StoppedTimerExits ==
    TimerStopped ~> (Len(tasks) >= 1 /\ TaskDone(tasks[1]))

\* C21, on a finite run: a step of the runner of a timer that is in a sleep
\* or wait with its stopper set ends the runner.
StoppedSleepEnds ==
    [][\A i \in DOMAIN tasks :
          /\ Handler(i).kind = "timer" /\ IsSet(stoppers[i])
          /\ tasks[i].pc \in Sleeping /\ tasks'[i] # tasks[i]
          => TaskDone(tasks'[i])]_vars

\* The sleeps that lead back to the head of the loop.
Resting == {"initial", "idle_gate", "sleep"}

\* One step of the runner i: an invocation begins with the stopper unset,
\* and a runner that leaves one of its sleeps with the stopper set ends.
InvokedUnset(i) ==
    LET t == tasks[i]
        u == tasks'[i]
    IN  /\ Fires(i) =>
              /\ stoppers[i].reasons = {} /\ stoppers'[i].reasons = {}
              /\ u.runs = IF t.runs < MaxRuns THEN t.runs + 1 ELSE MaxRuns
        /\ ~Fires(i) => u.runs = t.runs
        /\ IsSet(stoppers[i]) /\ t.pc \in Resting \cup {"new"} /\ u.pc # t.pc =>
              u.pc \in Finished \/ (t.pc = "new" /\ u.pc = "initial")

\* C22: no invocation of a handler begins while the stopper of its daemon
\* has a reason set: a daemon or timer runner whose stopper is set during
\* the initial delay, the idle gate, a retry sleep or an interval sleep
\* makes no further invocation and exits.
NoInvocationOnceSet ==
    [][\A i \in DOMAIN tasks : InvokedUnset(i)]_vars

\* A timer stopped in its idle gate before the idle time has passed: the
\* runner has ended its sleep early and returned without an invocation.
StoppedInTheGate ==
    \E i \in DOMAIN tasks :
        /\ Handler(i).kind = "timer" /\ Handler(i).idle = 2
        /\ tasks[i].pc = "returned"
        /\ tasks[i].runs = 0
        /\ tasks[i].wake > now
        /\ stoppers[i].reasons = {"OPERATOR_EXITING", "DONE"}

\* stop_daemon for the k-th daemon has returned: OPERATOR_EXITING is set, and
\* the task is done or the daemon is abandoned.
ReturnedStopped(k) ==
    LET i == daemons[k].task
    IN  stops[k].pc = "returned" =>
          /\ Has(i, "OPERATOR_EXITING")
          /\ TaskDone(tasks[i]) \/ Has(i, "DAEMON_ABANDONED")

\* The step on which stop_daemon for the k-th daemon returns: within the
\* backoff and the timeout of its begin; at once, with the daemon abandoned
\* and neither signalled nor cancelled, when neither is configured and the
\* task is not done after the yield.
ReturnsInTime(k) ==
    LET i == daemons[k].task
        h == Handler(i)
        stop == stops'[k]
    IN  stops[k].pc # "returned" /\ stop.pc = "returned" =>
          /\ now <= stops[k].began + OrZero(Backoff(h)) + OrZero(Timeout(h))
          /\ Backoff(h) = None /\ Timeout(h) = None /\ ~TaskDone(tasks'[i]) =>
                /\ now = stops[k].began
                /\ stop.abandoned_at = now
                /\ stop.signalled_at = None /\ stop.cancelled_at = None
                /\ stoppers'[i].reasons \cap {"DAEMON_SIGNALLED", "DAEMON_CANCELLED"} = {}
                /\ "DAEMON_ABANDONED" \in stoppers'[i].reasons
                /\ ~tasks'[i].must_cancel

\* C23: when stop_daemon returns, OPERATOR_EXITING is set and the task is
\* done or DAEMON_ABANDONED is set; it returns within backoff + timeout of
\* its call; DAEMON_SIGNALLED is set only with a backoff configured and
\* DAEMON_CANCELLED, with the cancel call, only with a timeout configured:
\* a timer, or a daemon with neither, that does not exit in the one yield
\* is abandoned at once, neither signalled nor cancelled.
StopDaemonOutcome ==
    /\ [](\A k \in DOMAIN stops : ReturnedStopped(k))
    /\ [](\A i \in DOMAIN tasks :
            /\ Has(i, "DAEMON_SIGNALLED") => Backoff(Handler(i)) # None
            /\ Has(i, "DAEMON_CANCELLED") => Timeout(Handler(i)) # None
            /\ ghost[i].cancelled_with # {} \/ tasks[i].must_cancel =>
                  Timeout(Handler(i)) # None)
    /\ [][\A k \in DOMAIN stops : ReturnsInTime(k)]_vars

\* A timer in an invocation when the operator exits: stop_daemon has
\* returned at the instant it began, the task abandoned and still running.
TimerAbandonedAtOnce ==
    \E k \in DOMAIN stops :
        LET i == daemons[k].task
        IN  /\ Handler(i).kind = "timer"
            /\ stops[k].pc = "returned"
            /\ stops[k].began = now /\ stops[k].abandoned_at = now
            /\ tasks[i].pc = "invoke"
            /\ stoppers[i].reasons = {"OPERATOR_EXITING", "DAEMON_ABANDONED"}

\* What the last visit of stop_resource_daemons left for task i, of a
\* handler without a timeout, when it did not find the task done: within
\* the backoff the rest of it, and past it (or with none) the polling delay.
Polled(i) ==
    LET h == Handler(i)
        v == ghost[i].last
        given == IF h.kind = "daemon" THEN h.cancellation_polling ELSE None
        nothing == IF h.kind = "daemon" THEN h.cancellation_backoff = None ELSE TRUE
    IN  v.phase # "none" /\ ~v.is_done =>
          /\ v.phase \in {"graceful", "polling"}
          /\ v.phase = "polling" <=> (nothing \/ v.age >= h.cancellation_backoff)
          /\ v.phase = "polling" =>
                v.delay = IF given = None \/ given = 0
                          THEN DAEMON_POLLING_INTERVAL ELSE given
          /\ v.delay > 0
          /\ proc.pc = "idle" /\ stop_result.status = "returned" =>
                stop_result.delays = <<v.delay>>

\* C24: for a handler without a cancellation timeout (every timer, and a
\* daemon with none set) whose task does not exit, stop_resource_daemons
\* never cancels the task and never sets DAEMON_ABANDONED; past the backoff,
\* or at once with none, every call contributes the polling delay
\* (cancellation_polling, or 60 when it is unset or zero, or for a timer),
\* so that the returned delays are never empty while the task runs.
PolledForEver ==
    \A i \in DOMAIN tasks :
        LET h == Handler(i)
        IN  Supported(h) /\ (h.kind = "daemon" => h.cancellation_timeout = None) =>
              /\ ~tasks[i].must_cancel /\ tasks[i].pc # "cancelled"
              /\ ghost[i].cancelled_with = {}
              /\ ghost[i].count["deletion"]["cancel_call"] = 0
              /\ ghost[i].count["deletion"]["abandon_log"] = 0
              /\ stoppers[i].reasons \cap {"DAEMON_CANCELLED", "DAEMON_ABANDONED"} = {}
              /\ Polled(i)

\* A daemon with a backoff of 1 and a polling of zero that does not exit:
\* signalled by the first call, then polled every 60 by the second and the
\* third.
PolledPastTheBackoff ==
    \E i \in DOMAIN tasks :
        /\ Handler(i).cancellation_backoff = 1 /\ Handler(i).cancellation_polling = 0
        /\ ~TaskDone(tasks[i])
        /\ ghost[i].first.phase = "graceful"
        /\ ghost[i].last.phase = "polling" /\ ghost[i].last.age = 3
        /\ stop_result.calls = PollingCalls
        /\ stop_result.status = "returned"
        /\ stop_result.delays = <<DAEMON_POLLING_INTERVAL>>

\* A visit v of stop_resource_daemons to task i, of a daemon with a
\* timeout: at an age of backoff + timeout or more it contributes no
\* delay, and a delay it contributes is positive and ends with the backoff
\* or with the timeout after it.
Unblocking(i, v) ==
    LET h == Handler(i)
        B == OrZero(h.cancellation_backoff)
        T == h.cancellation_timeout
    IN  v.phase # "none" =>
          /\ v.age >= B + T => v.delay = None /\ v.phase \in {"done", "abandoned"}
          /\ v.delay # None =>
                /\ v.delay > 0
                /\ v.phase = "graceful" => v.age + v.delay = B
                /\ v.phase = "forceful" => v.age + v.delay = B + T
                /\ v.phase \in {"graceful", "forceful"}

\* C25: a daemon with a cancellation timeout T (and a backoff B, 0 when
\* unset) never blocks the deletion for ever: a call of
\* stop_resource_daemons at an age of B + T or more contributes no delay
\* for it, whether its task has exited or not, and the delays of the calls
\* before end at B and at B + T, so that a caller who calls again after
\* each delay gets no delay after finitely many calls.
DeletionUnblocked ==
    \A i \in DOMAIN tasks :
        Handler(i).kind = "daemon" /\ Handler(i).cancellation_timeout # None =>
            /\ Unblocking(i, ghost[i].first)
            /\ Unblocking(i, ghost[i].last)
            /\ ghost[i].last.phase # "none"
               /\ ghost[i].last.age >= OrZero(Handler(i).cancellation_backoff)
                                          + Handler(i).cancellation_timeout
                   => Returned(<<>>)

\* A daemon with a timeout of 1 and no backoff that swallows its
\* cancellation: the first call returned a delay of 1, the call made after
\* it returns no delay while the task is still running.
UnblockedWhileRunning ==
    \E i \in DOMAIN tasks :
        /\ Handler(i).cancellation_backoff = None /\ Handler(i).cancellation_timeout = 1
        /\ Len(daemons) = 1
        /\ tasks[i].pc = "invoke"
        /\ ghost[i].first.phase = "forceful" /\ ghost[i].first.delay = 1
        /\ ghost[i].last.phase = "abandoned" /\ ghost[i].last.age = 1
        /\ stop_result.calls = 2
        /\ stop_result.status = "returned"
        /\ stop_result.delays = <<>>

\* The step that ends an invocation of task i, the patch flushed.
Concludes(i) ==
    /\ tasks[i].pc \in {"invoke", "patch"}
    /\ tasks'[i].pc \notin {"invoke", "patch", "failed"}

\* One step of the runner of a timer i: an invocation that leaves the state
\* not done is followed by a sleep of the retry delay, whatever the
\* schedule, and then by an invocation with the state as it was left (past
\* the idle gate, if there is one); the invocation after a done state
\* begins with a fresh state; a timer with neither an interval nor an idle
\* setting returns when the state is done.
RetriedOffSchedule(i) ==
    LET t == tasks[i]
        u == tasks'[i]
        h == Handler(i)
        \* after a success of an idle-only timer whose idle time was reset
        \* since the invocation began, the next round begins at once
        anew == /\ h.interval = None /\ h.idle # None /\ idle_reset_time > t.started
                /\ u.pc = "idle_gate" /\ u.delay = None
        failed == IF t.pc = "patch" THEN ~t.done ELSE ~u.done /\ ~anew
    IN  /\ Concludes(i) /\ failed =>
              /\ u.pc = "sleep"
              /\ ~u.done
              /\ u.delay \in 1..MaxRetryDelay
              /\ u.wake = now + u.delay
              /\ u.retried
        /\ Concludes(i) /\ u.done =>
              /\ u.delay = None
              /\ h.interval = None /\ h.idle = None => u.pc = "returned"
              /\ h.interval # None => u.pc = "sleep" /\ u.wake > now
        /\ t.pc = "sleep" /\ ~t.done /\ u.pc # t.pc /\ ~IsSet(stoppers[i]) =>
              /\ now = t.wake
              /\ u.pc \in {"invoke", "idle_gate"}
              /\ u.pc = "idle_gate" => h.idle # None /\ now - idle_reset_time < h.idle
              /\ ~u.done /\ u.delay = t.delay
        /\ Fires(i) /\ t.pc # "invoke" /\ ~t.done =>
              /\ ~u.done /\ u.delay = t.delay
              /\ t.delay # None => t.pc \in {"sleep", "idle_gate"}
        /\ Fires(i) /\ (t.pc = "invoke" \/ t.done) =>
              /\ ~u.done /\ u.delay = None
              /\ t.pc = "invoke" =>
                    h.interval = None /\ h.idle # None /\ idle_reset_time > t.started

\* C26: in the runner of a timer a failed invocation overrides the
\* schedule: the next invocation follows the retry delay, not the interval,
\* the sharp grid or the idle wait, and the retry state is kept; the state
\* is reset only after it is done; a timer with neither an interval nor an
\* idle setting exits after the first invocation that leaves the state
\* done, and retries while it is not.
RetryOverridesSchedule ==
    [][\A i \in DOMAIN tasks : Handler(i).kind = "timer" => RetriedOffSchedule(i)]_vars

\* A timer with an interval of 3 whose first invocation, at 0, failed at
\* once: the second begins at 1, with the retry state of the first.
RetriedBeforeTheInterval ==
    \E i \in DOMAIN tasks :
        /\ Handler(i).interval = 3 /\ Handler(i).idle = None
        /\ tasks[i].pc = "invoke"
        /\ tasks[i].first = 0 /\ tasks[i].started = 1 /\ tasks[i].runs = 2
        /\ tasks[i].retried /\ ~tasks[i].done /\ tasks[i].delay = 1
        /\ now = 1

\* A step of stop_resource_daemons, of stop_daemon or of the killer.
Terminating ==
    \/ proc' # proc
    \/ stop_result' # stop_result
    \/ killer' # killer
    \/ stops' # stops

\* C27: stop_resource_daemons, stop_daemon and the killer never add, remove
\* or replace a daemon record: the keys of the daemon table and the handler,
\* the stopper and the task of each record are the same after every step of
\* a termination call, so that the daemons that are done, cancelled or
\* abandoned stay in the table.
RecordsKept ==
    /\ [][Terminating =>
            /\ daemons' = daemons
            /\ handlers' = handlers
            /\ DOMAIN tasks' = DOMAIN tasks /\ DOMAIN stoppers' = DOMAIN stoppers
            /\ \A i \in DOMAIN tasks : tasks'[i].hid = tasks[i].hid]_vars
    /\ [](\A h \in DOMAIN handlers : spawned[h] > 0 => Cardinality(RecordsOf(h)) = 1)

\* Both protocols have ended for a daemon that was cancelled by the deletion
\* and abandoned by the exit: its record is in the table.
AbandonedAndKept ==
    \E k \in DOMAIN daemons :
        LET i == daemons[k].task
        IN  /\ killer.pc = "done"
            /\ stop_result.status = "returned"
            /\ Has(i, "DAEMON_CANCELLED") /\ Has(i, "DAEMON_ABANDONED")
            /\ Has(i, "RESOURCE_DELETED") /\ Has(i, "OPERATOR_EXITING")
            /\ ~TaskDone(tasks[i])
            /\ tasks[i].hid = daemons[k].id

IsDelay(d) == d # None

\* The last visit of stop_resource_daemons to the k-th daemon.
LastVisit(k) == ghost[daemons[k].task].last

\* The k-th daemon was running after the yield of its last visit and was not
\* past its deadline.
Contributes(k) ==
    LET h == handlers[daemons[k].id]
        v == LastVisit(k)
    IN  /\ ~v.is_done
        /\ ~(/\ h.kind = "daemon" /\ h.cancellation_timeout # None
              /\ v.age >= OrZero(h.cancellation_backoff) + h.cancellation_timeout)

\* C28: every delay that stop_resource_daemons returns is strictly positive;
\* a daemon that is running after the yield and is not abandoned (a timeout
\* configured and age >= backoff + timeout) contributes exactly one delay
\* and every other daemon none, so that the result is empty exactly when
\* every daemon of the table is done or abandoned.
DelaysPositive ==
    /\ proc.pc = "idle" /\ stop_result.status = "returned"
    /\ \A k \in DOMAIN daemons : LastVisit(k).phase # "none"
    => /\ \A j \in DOMAIN stop_result.delays : stop_result.delays[j] > 0
       /\ \A k \in DOMAIN daemons : Contributes(k) <=> LastVisit(k).delay # None
       /\ stop_result.delays =
             SelectSeq([k \in DOMAIN daemons |-> LastVisit(k).delay], IsDelay)
       /\ Len(stop_result.delays) = Cardinality({k \in DOMAIN daemons : Contributes(k)})
       /\ stop_result.delays = <<>> <=> \A k \in DOMAIN daemons : ~Contributes(k)

\* A call on a table of a daemon within its backoff and a timer in its
\* invocation has returned one delay for each.
OneDelayEach ==
    /\ Len(daemons) = 2
    /\ proc.pc = "idle" /\ stop_result.status = "returned"
    /\ \A k \in DOMAIN daemons : ~TaskDone(tasks[daemons[k].task]) /\ Contributes(k)
    /\ LastVisit(1).phase = "graceful" /\ LastVisit(2).phase = "polling"
    /\ stop_result.delays = <<1, DAEMON_POLLING_INTERVAL>>

====
